---- MODULE Spec2Model ----
(***************************************************************************)
(* Model of the image-to-recipe pipeline:                                  *)
(*   orc_lambda_v2.py      - the upload handler (submit)                   *)
(*   lambda_rekognition.py - the queue-triggered worker                    *)
(*   lambda_query.py       - the status poller (getStatus)                 *)
(* Text is a sequence of characters (one-character strings); a few longer  *)
(* strings stand for a fixed piece of text that the code only ever tests   *)
(* with `in`, startswith or split (a boundary line, a header line, the     *)
(* data-URL header).  Bytes are integers 0..255.                           *)
(***************************************************************************)
EXTENDS Integers, Sequences, FiniteSets, TLC

(* ----------------------------- bounds ---------------------------------- *)
MaxRequests == 2
MaxDeliveries == 2
MaxBatch == 2
MaxInvocations == 2
MaxClock == 1

MaxLabels == 3

(* ------------------------- text and bytes ------------------------------ *)
B64Chars ==
  << "A","B","C","D","E","F","G","H","I","J","K","L","M","N","O","P",
     "Q","R","S","T","U","V","W","X","Y","Z","a","b","c","d","e","f",
     "g","h","i","j","k","l","m","n","o","p","q","r","s","t","u","v",
     "w","x","y","z","0","1","2","3","4","5","6","7","8","9","+","/" >>

IsB64Char(c) == \E i \in 1..64 : B64Chars[i] = c

B64Value(c) == (CHOOSE i \in 1..64 : B64Chars[i] = c) - 1

Whitespace == {" ", "\n", "\r\n"}

DataUrlHeader == "data:image/jpeg;base64"

BoundaryText == "------boundary"

FilenameTokens == {"filename=a.jpg", "filename=U+00F1.jpg", "filename=U+00F1"}

\* the text after filename= with the quotes removed, as a sequence of pieces;
\* the piece "U+00F1" is one non-ASCII character
FilenameOf(tok) ==
  CASE tok = "filename=a.jpg"      -> << "a.jpg" >>
    [] tok = "filename=U+00F1.jpg" -> << "U+00F1", ".jpg" >>
    [] tok = "filename=U+00F1"     -> << "U+00F1" >>

IsAsciiPiece(p) == p # "U+00F1"

\* str.encode("ascii", "ignore").decode()
AsciiIgnore(name) == SelectSeq(name, IsAsciiPiece)

Repeat(s, n) == [i \in 1..(n * Len(s)) |-> s[((i - 1) % Len(s)) + 1]]

RECURSIVE LStrip(_)
LStrip(s) == IF s # << >> /\ Head(s) \in Whitespace THEN LStrip(Tail(s)) ELSE s

RECURSIVE RStrip(_)
RStrip(s) ==
  IF s # << >> /\ s[Len(s)] \in Whitespace THEN RStrip(SubSeq(s, 1, Len(s) - 1)) ELSE s

\* str.strip()
Strip(s) == RStrip(LStrip(s))

\* the index of the first element of s that is in targets, 0 when none is
FirstIndex(s, targets) ==
  LET hits == {i \in 1..Len(s) : s[i] \in targets} IN
  IF hits = {} THEN 0 ELSE CHOOSE i \in hits : \A j \in hits : i <= j

\* the byte of one character under .encode("utf-8") (all modelled characters are ASCII)
Utf8Byte(c) ==
  IF IsB64Char(c)
    THEN LET v == B64Value(c) IN
         IF v < 26 THEN 65 + v
         ELSE IF v < 52 THEN 97 + (v - 26)
         ELSE IF v < 62 THEN 48 + (v - 52)
         ELSE IF v = 62 THEN 43 ELSE 47
    ELSE CASE c = "=" -> 61
           [] c = "," -> 44
           [] c = "-" -> 45
           [] c = " " -> 32
           [] c = "{" -> 123
           [] OTHER   -> 10

Utf8Encode(s) == [i \in 1..Len(s) |-> Utf8Byte(s[i])]

\* base64.b64decode(s) with validate=False (binascii.a2b_base64): characters
\* outside the alphabet are skipped; a "=" met at quad position 2 or 3 counts
\* as a pad, and the pad that completes the quad ends the input; input that
\* ends inside a quad raises binascii.Error (ok = FALSE)
DataBefore(s, i) == Cardinality({j \in 1..(i - 1) : IsB64Char(s[j])})

PadsUpTo(s, i) ==
  Cardinality({j \in 1..i : /\ s[j] = "="
                            /\ \A k \in j..i : ~IsB64Char(s[k])})

EndsInput(s, i) ==
  /\ s[i] = "="
  /\ DataBefore(s, i) % 4 >= 2
  /\ (DataBefore(s, i) % 4) + PadsUpTo(s, i) >= 4

b64decode(s) ==
  LET stops == {i \in 1..Len(s) : EndsInput(s, i)}
      stop == IF stops = {} THEN Len(s) + 1
              ELSE CHOOSE i \in stops : \A j \in stops : i <= j
      data == SelectSeq(SubSeq(s, 1, stop - 1), IsB64Char)
      n == Len(data)
      v(k) == B64Value(data[k])
      byte(k) ==
        LET q == 4 * ((k - 1) \div 3) IN
        CASE (k - 1) % 3 = 0 -> (v(q + 1) * 4 + v(q + 2) \div 16) % 256
          [] (k - 1) % 3 = 1 -> (v(q + 2) * 16 + v(q + 3) \div 4) % 256
          [] (k - 1) % 3 = 2 -> (v(q + 3) * 64 + v(q + 4)) % 256
  IN [ok |-> stops # {} \/ n % 4 = 0,
      bytes |-> [k \in 1..((n * 6) \div 8) |-> byte(k)]]

(* ------------------------------ state ---------------------------------- *)
VARIABLES
  objects,   \* the object store: the set of objects put, [key, body]
  table,     \* the record store: requestId -> item (a record of its attributes)
  queue,     \* the queue: message -> number of times it has been delivered
  uuids,     \* how many request ids uuid4 has generated
  now,       \* datetime.utcnow(), a logical clock
  inv,       \* the worker invocations: slot -> its locals and position
  last       \* the last client call: its input and the response returned

vars == << objects, table, queue, uuids, now, inv, last >>

(* --------------------- orc_lambda_v2.py: submit ------------------------ *)
orc_success_response(data) == [statusCode |-> 200, body |-> data]

orc_error_response(message) == [statusCode |-> 500, body |-> [error |-> message]]

HasFilename(line) == \E i \in 1..Len(line) : line[i] \in FilenameTokens

RECURSIVE JoinLines(_)
JoinLines(ls) ==
  IF ls = << >> THEN << >>
  ELSE IF Len(ls) = 1 THEN ls[1]
  ELSE ls[1] \o << "\r\n" >> \o JoinLines(Tail(ls))

\* the parsing half of process_multipart_form_data: the first line holding
\* filename= names the file, the data starts three lines below it and ends at
\* the first "------"
ParseMultipart(lines) ==
  LET i == FirstIndex([k \in 1..Len(lines) |-> HasFilename(lines[k])], {TRUE}) IN
  IF i = 0
    THEN [image_data |-> << >>, filename |-> << >>, original_filename |-> << >>]
    ELSE
      LET original == FilenameOf(lines[i][FirstIndex(lines[i], FilenameTokens)])
          image_start == i + 3
          joined == IF image_start <= Len(lines)
                      THEN JoinLines(SubSeq(lines, image_start, Len(lines)))
                      ELSE << >>
          cut == FirstIndex(joined, {BoundaryText})
      IN [image_data |-> IF cut = 0 THEN joined ELSE SubSeq(joined, 1, cut - 1),
          filename |-> AsciiIgnore(original),
          original_filename |-> original]

EndsWithDashes(s) == Len(s) >= 2 /\ s[Len(s)] = "-" /\ s[Len(s) - 1] = "-"

\* DecodeImage whose slice after the data-URL header starts one character late
DecodeImage_latestart(image_data) ==
  LET stripped == Strip(image_data)
      clean == IF EndsWithDashes(stripped)
                 THEN Strip(SubSeq(stripped, 1, Len(stripped) - 2))
                 ELSE stripped
      isDataUrl == clean # << >> /\ clean[1] = DataUrlHeader
      comma1 == FirstIndex(clean, {","})
      rest == SubSeq(clean, comma1 + 2, Len(clean))
      comma2 == FirstIndex(rest, {","})
      payload == IF ~isDataUrl THEN clean
                 ELSE IF comma2 = 0 THEN rest ELSE SubSeq(rest, 1, comma2 - 1)
      decoded == b64decode(payload)
  IN IF isDataUrl /\ comma1 = 0
       THEN [raised |-> TRUE, bytes |-> << >>]
       ELSE [raised |-> FALSE,
             bytes |-> IF decoded.ok THEN decoded.bytes ELSE Utf8Encode(payload)]

\* the decoding half of process_image_upload: strip, drop a trailing "--",
\* drop a data-URL header, base64-decode, and on a decoding error keep the
\* text's own bytes.  raised: split(",")[1] had no second piece
DecodeImage(image_data) ==
  LET stripped == Strip(image_data)
      clean == IF EndsWithDashes(stripped)
                 THEN Strip(SubSeq(stripped, 1, Len(stripped) - 2))
                 ELSE stripped
      isDataUrl == clean # << >> /\ clean[1] = DataUrlHeader
      comma1 == FirstIndex(clean, {","})
      rest == SubSeq(clean, comma1 + 1, Len(clean))
      comma2 == FirstIndex(rest, {","})
      payload == IF ~isDataUrl THEN clean
                 ELSE IF comma2 = 0 THEN rest ELSE SubSeq(rest, 1, comma2 - 1)
      decoded == b64decode(payload)
  IN IF isDataUrl /\ comma1 = 0
       THEN [raised |-> TRUE, bytes |-> << >>]
       ELSE [raised |-> FALSE,
             bytes |-> IF decoded.ok THEN decoded.bytes ELSE Utf8Encode(payload)]

(* ------------------------- the submissions ------------------------------ *)
JpegPayload == << "/", "9", "j", "/" >> \o Repeat(<< "A", "A", "A", "A" >>, 33)

Jpeg99Payload == << "/", "9", "j", "/" >> \o Repeat(<< "A", "A", "A", "A" >>, 32)

PngPayload ==
  << "i","V","B","O","R","w","0","K","G","g","o","A" >> \o Repeat(<< "A", "A", "A", "A" >>, 31)

TextPayload == << "d", "G", "V", "z", "d", "A", "=", "=" >>

ZerosPayload == Repeat(<< "A", "A", "A", "A" >>, 34)

BrokenPayload == << "/", "9", "j", "/", "A" >>

DataUrl(payload) == << DataUrlHeader, "," >> \o payload

Multipart(nameTok, dataLines) ==
  << << BoundaryText >>, << "Content-Disposition", nameTok >>, << "Content-Type" >>, << >> >>
  \o dataLines \o << << BoundaryText, "-", "-" >> >>

FormEvent(nameTok, dataLines) ==
  [hasBody |-> TRUE, transport |-> "plain", lines |-> Multipart(nameTok, dataLines)]

JsonEvent(payload) ==
  [hasBody |-> TRUE, transport |-> "plain",
   lines |-> << << "{", "image" >> \o payload \o << "}" >> >>]

GoodEvent == FormEvent("filename=a.jpg", << JpegPayload >>)

NoBodyEvent == [hasBody |-> FALSE, transport |-> "plain", lines |-> << >>]

Events ==
  { GoodEvent,
    FormEvent("filename=a.jpg", << DataUrl(JpegPayload) >>),
    FormEvent("filename=U+00F1.jpg", << PngPayload >>),
    FormEvent("filename=a.jpg", << Jpeg99Payload >>),
    FormEvent("filename=a.jpg", << TextPayload >>),
    FormEvent("filename=a.jpg", << ZerosPayload >>),
    FormEvent("filename=a.jpg", << BrokenPayload >>),
    FormEvent("filename=a.jpg", << << DataUrlHeader >> \o JpegPayload >>),
    FormEvent("filename=a.jpg", << >>),
    FormEvent("filename=U+00F1", << JpegPayload >>),
    FormEvent("name=comment", << TextPayload >>),
    JsonEvent(JpegPayload),
    JsonEvent(DataUrl(JpegPayload)),
    [GoodEvent EXCEPT !.transport = "base64"],
    [hasBody |-> TRUE, transport |-> "base64_invalid", lines |-> << >>],
    [hasBody |-> TRUE, transport |-> "base64_binary", lines |-> << >>],
    NoBodyEvent }

\* the submissions of the pipeline specification
PipelineEvents == {GoodEvent, NoBodyEvent}

\* base64 texts as the lines of a file part: whole images, a padded text, a
\* text wrapped over two lines, and a text that does not decode
RoundTripPayloads ==
  { << JpegPayload >>, << Jpeg99Payload >>, << PngPayload >>, << TextPayload >>,
    << << "d", "G", "V", "z" >>, << "d", "A", "=", "=" >> >>,
    << BrokenPayload >> }

\* the upload of a base64 text as it is, and as a data URL
BareEvent(payload) == FormEvent("filename=a.jpg", payload)

UrlEvent(payload) == FormEvent("filename=a.jpg", << DataUrl(payload[1]) >> \o Tail(payload))

RoundTripEvents ==
  {BareEvent(payload) : payload \in RoundTripPayloads}
  \cup {UrlEvent(payload) : payload \in RoundTripPayloads}

\* ParseMultipart and DecodeImage of every submission, computed once
ParsedEvents ==
  { [lines |-> e.lines,
     parsed |-> ParseMultipart(e.lines),
     image |-> DecodeImage(ParseMultipart(e.lines).image_data)]
    : e \in Events \cup RoundTripEvents }

ParsedEvent(lines) == CHOOSE p \in ParsedEvents : p.lines = lines

S3Key(request_id, safe_filename) == [requestId |-> request_id, name |-> safe_filename]

\* table.put_item(Item={...}) of process_image_upload
NewItem(request_id, safe_filename, original_filename, t) ==
  [requestId |-> request_id,
   status |-> "PROCESSING",
   createdAt |-> t,
   imageS3Key |-> S3Key(request_id, safe_filename),
   originalFilename |-> original_filename,
   safeFilename |-> safe_filename,
   updatedAt |-> t]

\* the MessageBody of sqs_client.send_message
NewMessage(request_id, safe_filename, original_filename) ==
  [requestId |-> request_id,
   imageS3Key |-> S3Key(request_id, safe_filename),
   bucketName |-> "bucket",
   originalFilename |-> original_filename]

PutItem(tbl, item) ==
  [k \in DOMAIN tbl \cup {item.requestId} |-> IF k = item.requestId THEN item ELSE tbl[k]]

SendMessage(q, m) == [k \in DOMAIN q \cup {m} |-> IF k \in DOMAIN q THEN q[k] ELSE 0]

\* the three writes of a submission fail independently: fault names the first
\* call that raises, "none" when all succeed
Faults == {"none", "put_object", "put_item", "send_message"}

\* process_image_upload that catches and logs a failure of put_item and goes on
\* to send the message
process_image_upload_putswallowed(img, safe_filename, original_filename, fault, st) ==
  LET request_id == st.uuids + 1
      key == S3Key(request_id, safe_filename)
      st0 == [st EXCEPT !.uuids = request_id]
      st1 == [st0 EXCEPT !.objects = @ \cup {[key |-> key, body |-> img.bytes]}]
      st2 == IF fault = "put_item" THEN st1
             ELSE [st1 EXCEPT !.table =
                     PutItem(@, NewItem(request_id, safe_filename, original_filename, st.now))]
      st3 == [st2 EXCEPT !.queue =
                SendMessage(@, NewMessage(request_id, safe_filename, original_filename))]
      failed == orc_error_response("Erro ao processar imagem")
  IN IF img.raised THEN [st |-> st0, response |-> failed]
     ELSE IF fault = "put_object" THEN [st |-> st0, response |-> failed]
     ELSE IF fault = "send_message" THEN [st |-> st2, response |-> failed]
     ELSE [st |-> st3,
           response |-> orc_success_response(
             [requestId |-> request_id, status |-> "PROCESSING",
              message |-> "Imagem recebida e em processamento"])]

\* process_image_upload with the queue send moved before the record write
process_image_upload_sendfirst(img, safe_filename, original_filename, fault, st) ==
  LET request_id == st.uuids + 1
      key == S3Key(request_id, safe_filename)
      st0 == [st EXCEPT !.uuids = request_id]
      st1 == [st0 EXCEPT !.objects = @ \cup {[key |-> key, body |-> img.bytes]}]
      st2 == [st1 EXCEPT !.queue =
                SendMessage(@, NewMessage(request_id, safe_filename, original_filename))]
      st3 == [st2 EXCEPT !.table =
                PutItem(@, NewItem(request_id, safe_filename, original_filename, st.now))]
      failed == orc_error_response("Erro ao processar imagem")
  IN IF img.raised THEN [st |-> st0, response |-> failed]
     ELSE IF fault = "put_object" THEN [st |-> st0, response |-> failed]
     ELSE IF fault = "send_message" THEN [st |-> st1, response |-> failed]
     ELSE IF fault = "put_item" THEN [st |-> st2, response |-> failed]
     ELSE [st |-> st3,
           response |-> orc_success_response(
             [requestId |-> request_id, status |-> "PROCESSING",
              message |-> "Imagem recebida e em processamento"])]

\* process_image_upload: the stores after the call and the response returned.
\* img is DecodeImage(image_data)
process_image_upload(img, safe_filename, original_filename, fault, st) ==
  LET request_id == st.uuids + 1
      key == S3Key(request_id, safe_filename)
      st0 == [st EXCEPT !.uuids = request_id]
      st1 == [st0 EXCEPT !.objects = @ \cup {[key |-> key, body |-> img.bytes]}]
      st2 == [st1 EXCEPT !.table =
                PutItem(@, NewItem(request_id, safe_filename, original_filename, st.now))]
      st3 == [st2 EXCEPT !.queue =
                SendMessage(@, NewMessage(request_id, safe_filename, original_filename))]
      failed == orc_error_response("Erro ao processar imagem")
  IN IF img.raised THEN [st |-> st0, response |-> failed]
     ELSE IF fault = "put_object" THEN [st |-> st0, response |-> failed]
     ELSE IF fault = "put_item" THEN [st |-> st1, response |-> failed]
     ELSE IF fault = "send_message" THEN [st |-> st2, response |-> failed]
     ELSE [st |-> st3,
           response |-> orc_success_response(
             [requestId |-> request_id, status |-> "PROCESSING",
              message |-> "Imagem recebida e em processamento"])]

process_multipart_form_data(lines, fault, st) ==
  LET p == ParsedEvent(lines).parsed IN
  IF p.image_data = << >> \/ p.filename = << >>
    THEN [st |-> st, response |-> orc_error_response("Nenhuma imagem encontrada no upload")]
    ELSE process_image_upload(ParsedEvent(lines).image, p.filename, p.original_filename,
                              fault, st)

\* lambda_handler of orc_lambda_v2.py.  event.transport says how the gateway
\* passed the body: "plain", "base64" (isBase64Encoded, decodes to event.lines),
\* "base64_invalid" (b64decode raises) or "base64_binary" (not UTF-8)
orc_lambda_handler(event, fault, st) ==
  IF ~event.hasBody
    THEN [st |-> st, response |-> orc_error_response("No body in request")]
  ELSE IF event.transport = "base64_invalid"
    THEN [st |-> st, response |-> orc_error_response("Body decoding error")]
  ELSE IF event.transport = "base64_binary"
    THEN [st |-> st, response |-> orc_error_response("Error decoding request body")]
  ELSE process_multipart_form_data(event.lines, fault, st)

Stores == [objects |-> objects, table |-> table, queue |-> queue, uuids |-> uuids, now |-> now]

Submit(event, fault) ==
  LET r == orc_lambda_handler(event, fault, Stores) IN
  /\ r.st.uuids <= MaxRequests
  /\ objects' = r.st.objects
  /\ table' = r.st.table
  /\ queue' = r.st.queue
  /\ uuids' = r.st.uuids
  /\ now' = r.st.now
  /\ last' = [op |-> "submit", event |-> event, fault |-> fault, response |-> r.response]
  /\ UNCHANGED inv


(* ------------------- lambda_rekognition.py: the worker ------------------ *)
\* numbers are fixed-point thousandths tagged with their Python type
Float(m) == [type |-> "float", milli |-> m]

Decimal(m) == [type |-> "Decimal", milli |-> m]

\* Decimal(str(x)) of convert_floats_to_decimals
FloatToDecimal(x) == IF x.type = "float" THEN Decimal(x.milli) ELSE x

\* convert_floats_to_decimals on one ingredient dict
ConvertIngredient(ing) ==
  [a \in DOMAIN ing |->
     IF a = "confidence" THEN FloatToDecimal(ing[a])
     ELSE IF a = "geometry" THEN [g \in DOMAIN ing[a] |-> FloatToDecimal(ing[a][g])]
     ELSE ing[a]]

convert_floats_to_decimals(ingredients) ==
  [i \in 1..Len(ingredients) |-> ConvertIngredient(ingredients[i])]

\* Decimal(str(c)).quantize(Decimal('0.01')): round half even to hundredths
Quantize(m) ==
  LET r == m % 10
      base == m - r
  IN IF r < 5 THEN base
     ELSE IF r > 5 THEN base + 10
     ELSE IF (base \div 10) % 2 = 0 THEN base ELSE base + 10

\* list.sort(key=confidence, reverse=True): descending and stable
RECURSIVE SortByConfidence(_)
SortByConfidence(ings) ==
  IF ings = << >> THEN << >>
  ELSE LET rest == SortByConfidence(Tail(ings))
           x == Head(ings)
           before == {i \in 1..Len(rest) : rest[i].confidence.milli > x.confidence.milli}
           k == Cardinality(before)
       IN SubSeq(rest, 1, k) \o << x >> \o SubSeq(rest, k + 1, Len(rest))

\* the threshold test with >= in place of >
KeepsLabel_inclusive(label) == label.Confidence.milli >= 70000

KeepsLabel(label) == label.Confidence.milli > 70000

ToIngredient(label) ==
  [name |-> label.Name,
   confidence |-> Decimal(Quantize(label.Confidence.milli)),
   geometry |-> IF "Geometry" \in DOMAIN label
                  THEN [g \in DOMAIN label.Geometry |-> FloatToDecimal(label.Geometry[g])]
                  ELSE << >>]

process_rekognition_results(labels) ==
  LET kept == SelectSeq(labels, KeepsLabel) IN
  SortByConfidence([i \in 1..Len(kept) |-> ToIngredient(kept[i])])

generate_fallback_ingredients ==
  << [name |-> "banana", confidence |-> Float(500), source |-> "fallback"],
     [name |-> "ovo", confidence |-> Float(500), source |-> "fallback"],
     [name |-> "farinha de trigo", confidence |-> Float(500), source |-> "fallback"],
     [name |-> "manteiga", confidence |-> Float(500), source |-> "fallback"],
     [name |-> "leite", confidence |-> Float(500), source |-> "fallback"] >>

\* what rekognition.detect_custom_labels does: it returns labels or raises
RekognitionOutcomes ==
  { [kind |-> "labels", labels |-> << >>],
    [kind |-> "labels",
     labels |-> << [Name |-> "alho", Confidence |-> Float(70000)],
                   [Name |-> "cebola", Confidence |-> Float(80005),
                    Geometry |-> [Width |-> Float(250)]],
                   [Name |-> "tomate", Confidence |-> Float(95500)] >>],
    [kind |-> "ResourceNotFoundException"],
    [kind |-> "Exception"] }

\* detect_ingredients that returns what process_rekognition_results gave, also
\* when it is empty
detect_ingredients_unchecked(message, rek) ==
  IF "imageS3Key" \in DOMAIN message
    THEN IF rek.kind = "labels"
           THEN process_rekognition_results(rek.labels)
           ELSE generate_fallback_ingredients
    ELSE generate_fallback_ingredients

detect_ingredients(message, rek) ==
  IF "imageS3Key" \in DOMAIN message
    THEN IF rek.kind = "labels"
           THEN LET ingredients == process_rekognition_results(rek.labels) IN
                IF ingredients # << >> THEN ingredients ELSE generate_fallback_ingredients
           ELSE generate_fallback_ingredients
    ELSE generate_fallback_ingredients

RECURSIVE JoinNames(_)
JoinNames(names) ==
  IF names = << >> THEN << >>
  ELSE IF Len(names) = 1 THEN << names[1] >>
  ELSE << names[1], ", " >> \o JoinNames(Tail(names))

PancakeNames == {"banana", "ovo", "farinha de trigo", "manteiga", "leite"}

Lower(n) == IF n = "Banana" THEN "banana" ELSE n

create_specific_recipe(ingredient_names) ==
  LET lowered == {Lower(ingredient_names[i]) : i \in 1..Len(ingredient_names)} IN
  IF lowered \cap PancakeNames # {} THEN << "\n", "**Panquecas de Banana**", "\n" >>
  ELSE IF "ovo" \in lowered THEN << "\n", "**Omelete Simples**", "\n" >>
  ELSE << "\n", "**Receita Criativa com " >> \o JoinNames(ingredient_names)
       \o << "**", "\n" >>

HasTruthyName(ing) == "name" \in DOMAIN ing /\ ing.name # ""

generate_creative_fallback_recipe(ingredients) ==
  IF Len(ingredients) > 0
    THEN LET named == SelectSeq(ingredients, HasTruthyName) IN
         create_specific_recipe([i \in 1..Len(named) |-> named[i].name])
    ELSE << "\n", "**Receita Surpresa da Geladeira**", "\n" >>

\* what bedrock.invoke_model does: it returns a text or raises
BedrockOutcomes ==
  { [kind |-> "text", text |-> << " ", "Bolo de banana", "\n" >>],
    [kind |-> "text", text |-> << " ", "\n" >>],
    [kind |-> "AccessDeniedException"],
    [kind |-> "ThrottlingException"],
    [kind |-> "Exception"] }

AccessDeniedText ==
  << "Erro: Acesso ao modelo de IA nao autorizado. Verifique as permissoes do Bedrock." >>

ThrottledText == << "Sistema ocupado. Por favor, tente novamente em alguns instantes." >>

IsValidIngredient(ing) ==
  \/ ~("source" \in DOMAIN ing /\ ing.source = "fallback")
  \/ (IF "confidence" \in DOMAIN ing THEN ing.confidence.milli ELSE 0) > 100

\* generate_recipes_with_bedrock whose generic handler re-raises, as the
\* handlers of update_dynamo_status and update_dynamo_result do
generate_recipes_reraising(ingredients, bed) ==
  LET valid_ingredients == SelectSeq(ingredients, IsValidIngredient)
      allNamed == \A i \in 1..Len(valid_ingredients) : "name" \in DOMAIN valid_ingredients[i]
  IN IF valid_ingredients = << >>
       THEN [raised |-> FALSE, text |-> generate_creative_fallback_recipe(ingredients)]
     ELSE IF ~allNamed THEN [raised |-> TRUE, text |-> << >>]
     ELSE CASE bed.kind = "text" -> [raised |-> FALSE, text |-> Strip(bed.text)]
            [] bed.kind = "AccessDeniedException" -> [raised |-> FALSE, text |-> AccessDeniedText]
            [] bed.kind = "ThrottlingException" -> [raised |-> FALSE, text |-> ThrottledText]
            [] OTHER -> [raised |-> TRUE, text |-> << >>]

\* generate_recipes_with_bedrock without the ThrottlingException handler: the
\* throttling error reaches the generic handler
generate_recipes_unthrottled(ingredients, bed) ==
  LET valid_ingredients == SelectSeq(ingredients, IsValidIngredient)
      allNamed == \A i \in 1..Len(valid_ingredients) : "name" \in DOMAIN valid_ingredients[i]
      ingredient_list ==
        JoinNames([i \in 1..Len(valid_ingredients) |-> valid_ingredients[i].name])
  IN IF valid_ingredients = << >>
       THEN [raised |-> FALSE, text |-> generate_creative_fallback_recipe(ingredients)]
     ELSE IF ~allNamed THEN [raised |-> TRUE, text |-> << >>]
     ELSE CASE bed.kind = "text" -> [raised |-> FALSE, text |-> Strip(bed.text)]
            [] bed.kind = "AccessDeniedException" -> [raised |-> FALSE, text |-> AccessDeniedText]
            [] OTHER ->
                 [raised |-> FALSE,
                  text |-> << "Receita gerada automaticamente com os ingredientes: " >>
                           \o ingredient_list
                           \o << ". Sugestao: refogue os ingredientes e tempere a gosto." >>]

\* generate_recipes_with_bedrock: the string returned, or raised = TRUE when an
\* exception leaves the function (the last handler reads ingredient_list, which
\* is unbound when the failure came before its assignment)
generate_recipes_with_bedrock(ingredients, bed) ==
  LET valid_ingredients == SelectSeq(ingredients, IsValidIngredient)
      allNamed == \A i \in 1..Len(valid_ingredients) : "name" \in DOMAIN valid_ingredients[i]
      ingredient_list ==
        JoinNames([i \in 1..Len(valid_ingredients) |-> valid_ingredients[i].name])
  IN IF valid_ingredients = << >>
       THEN [raised |-> FALSE, text |-> generate_creative_fallback_recipe(ingredients)]
     ELSE IF ~allNamed THEN [raised |-> TRUE, text |-> << >>]
     ELSE CASE bed.kind = "text" -> [raised |-> FALSE, text |-> Strip(bed.text)]
            [] bed.kind = "AccessDeniedException" -> [raised |-> FALSE, text |-> AccessDeniedText]
            [] bed.kind = "ThrottlingException" -> [raised |-> FALSE, text |-> ThrottledText]
            [] OTHER ->
                 [raised |-> FALSE,
                  text |-> << "Receita gerada automaticamente com os ingredientes: " >>
                           \o ingredient_list
                           \o << ". Sugestao: refogue os ingredientes e tempere a gosto." >>]

\* table.update_item(Key, 'SET ...'): sets the named attributes of the item and
\* keeps the others; an item that does not exist is created
UpdateItem(tbl, request_id, attrs) ==
  LET old == IF request_id \in DOMAIN tbl THEN tbl[request_id]
             ELSE [requestId |-> request_id]
      new == [a \in DOMAIN old \cup DOMAIN attrs |->
                IF a \in DOMAIN attrs THEN attrs[a] ELSE old[a]]
  IN [k \in DOMAIN tbl \cup {request_id} |-> IF k = request_id THEN new ELSE tbl[k]]

\* mutant: the status written is a literal, not the parameter
update_dynamo_status_literal(tbl, request_id, status, t) ==
  UpdateItem(tbl, request_id, [status |-> "PROCESSING", updatedAt |-> t])

update_dynamo_status(tbl, request_id, status, t) ==
  UpdateItem(tbl, request_id, [status |-> status, updatedAt |-> t])

\* update_dynamo_result whose SET leaves out updatedAt
update_dynamo_result_stale(tbl, request_id, ingredients, recipes, t) ==
  UpdateItem(tbl, request_id,
             [status |-> "COMPLETED",
              ingredients |-> convert_floats_to_decimals(ingredients),
              recipes |-> recipes,
              completedAt |-> t])

update_dynamo_result(tbl, request_id, ingredients, recipes, t) ==
  UpdateItem(tbl, request_id,
             [status |-> "COMPLETED",
              ingredients |-> convert_floats_to_decimals(ingredients),
              recipes |-> recipes,
              updatedAt |-> t,
              completedAt |-> t])

update_dynamo_error(tbl, request_id, error_message, t) ==
  UpdateItem(tbl, request_id,
             [status |-> "ERROR", errorMessage |-> error_message, updatedAt |-> t])

\* the outcomes of the pipeline specification
PipelineRekognition == {r \in RekognitionOutcomes : r.kind = "Exception"}

PipelineBedrock == {b \in BedrockOutcomes : b.kind = "ThrottlingException"}

Idle == [pc |-> "idle"]

\* how a record-store update of the worker ends: it succeeds, or it raises and
\* the update of the except block succeeds ("error"), or both raise ("lost")
WriteOutcomes == {"ok", "error", "lost"}

\* the batches the queue can hand to one invocation
Deliverable == {m \in DOMAIN queue : queue[m] < MaxDeliveries}

Batches ==
  UNION { {b \in [1..n -> Deliverable] : \A i, j \in 1..n : i # j => b[i] # b[j]}
          : n \in 1..MaxBatch }

\* the event source starts lambda_handler with a batch of messages
Deliver(slot, batch) ==
  /\ inv[slot].pc = "idle"
  /\ \A s \in 1..(slot - 1) : inv[s].pc # "idle"
  /\ queue' = [m \in DOMAIN queue |->
                 IF \E i \in 1..Len(batch) : batch[i] = m THEN queue[m] + 1 ELSE queue[m]]
  /\ inv' = [inv EXCEPT ![slot] = [pc |-> "status", batch |-> batch, idx |-> 1,
                                   request_id |-> 0]]
  /\ UNCHANGED << objects, table, uuids, now, last >>

\* the except block of lambda_handler: when request_id is in locals (0 stands
\* for unbound) the record it names is marked ERROR unless that update raises
\* too; the invocation returns 200
ExceptBlock(slot, request_id, error_message, outcome) ==
  /\ IF outcome = "error" /\ request_id # 0
       THEN /\ table' = update_dynamo_error(table, request_id, error_message, now)
       ELSE UNCHANGED table
  /\ inv' = [inv EXCEPT ![slot] = Idle]

\* json.loads, message_body['requestId'], update_dynamo_status(ANALYZING_IMAGE).
\* A body that json.loads rejects or that has no requestId raises before
\* request_id is assigned: the local keeps the value of the previous iteration
WorkerStatus(slot, outcome) ==
  /\ inv[slot].pc = "status"
  /\ LET message_body == inv[slot].batch[inv[slot].idx] IN
     IF "requestId" \notin DOMAIN message_body
       THEN /\ outcome # "ok"
            /\ ExceptBlock(slot, inv[slot].request_id,
                           IF "raw" \in DOMAIN message_body
                             THEN "Expecting value: line 1 column 1 (char 0)"
                             ELSE "'requestId'",
                           outcome)
       ELSE LET request_id == message_body.requestId IN
            IF outcome = "ok"
              THEN /\ table' = update_dynamo_status(table, request_id, "ANALYZING_IMAGE", now)
                   /\ inv' = [inv EXCEPT ![slot] =
                                [pc |-> "generate", batch |-> @.batch, idx |-> @.idx,
                                 request_id |-> request_id]]
              ELSE ExceptBlock(slot, request_id, "update_item failed", outcome)
  /\ UNCHANGED << objects, queue, uuids, now, last >>

\* detect_ingredients and generate_recipes_with_bedrock; outcome is how the
\* except block ends when the generator raises.  The invocation also keeps
\* what the two services answered for the message (rekognition, bedrock)
WorkerGenerate(slot, rek, bed, outcome) ==
  /\ inv[slot].pc = "generate"
  /\ LET ingredients == detect_ingredients(inv[slot].batch[inv[slot].idx], rek)
         g == generate_recipes_with_bedrock(ingredients, bed)
     IN IF g.raised
          THEN ExceptBlock(slot, inv[slot].request_id, "UnboundLocalError", outcome)
          ELSE /\ inv' = [inv EXCEPT ![slot] =
                            [pc |-> "result", batch |-> @.batch, idx |-> @.idx,
                             request_id |-> @.request_id,
                             ingredients |-> ingredients, recipes |-> g.text,
                             rekognition |-> rek, bedrock |-> bed.kind]]
               /\ UNCHANGED table
  /\ UNCHANGED << objects, queue, uuids, now, last >>

\* update_dynamo_result, then the next message of the batch or the return
WorkerResult(slot, outcome) ==
  /\ inv[slot].pc = "result"
  /\ IF outcome = "ok"
       THEN /\ table' = update_dynamo_result(table, inv[slot].request_id,
                                             inv[slot].ingredients, inv[slot].recipes, now)
            /\ inv' = [inv EXCEPT ![slot] =
                         IF @.idx < Len(@.batch)
                           THEN [pc |-> "status", batch |-> @.batch, idx |-> @.idx + 1,
                                 request_id |-> @.request_id]
                           ELSE Idle]
       ELSE ExceptBlock(slot, inv[slot].request_id, "update_item failed", outcome)
  /\ UNCHANGED << objects, queue, uuids, now, last >>

(* --------------------- lambda_query.py: getStatus ----------------------- *)
query_success_response(data, t) ==
  [statusCode |-> 200, body |-> [success |-> TRUE, data |-> data, timestamp |-> t]]

query_error_response(message, status_code, t) ==
  [statusCode |-> status_code,
   body |-> [success |-> FALSE, error |-> message, timestamp |-> t]]

\* float(obj) if obj % 1 != 0 else int(obj)
DecimalToNative(x) ==
  IF x.type = "Decimal"
    THEN [type |-> IF x.milli % 1000 # 0 THEN "float" ELSE "int", milli |-> x.milli]
    ELSE x

NativeIngredient(ing) ==
  [a \in DOMAIN ing |->
     IF a = "confidence" THEN DecimalToNative(ing[a])
     ELSE IF a = "geometry" THEN [g \in DOMAIN ing[a] |-> DecimalToNative(ing[a][g])]
     ELSE ing[a]]

\* convert_decimals on an item
convert_decimals(item) ==
  [a \in DOMAIN item |->
     IF a = "ingredients"
       THEN [i \in 1..Len(item[a]) |-> NativeIngredient(item[a][i])]
       ELSE item[a]]

get_status_message(status) ==
  CASE status = "PROCESSING" -> "Sua imagem esta sendo processada..."
    [] status = "ANALYZING_IMAGE" -> "Analisando ingredientes na imagem..."
    [] status = "GENERATING_RECIPES" -> "Gerando receitas personalizadas..."
    [] status = "UPLOADING" -> "Fazendo upload da imagem..."
    [] status = "QUEUED" -> "Na fila de processamento..."
    [] OTHER -> "Processando sua solicitacao..."

\* dict.get(key, default)
Get(item, key, default) == IF key \in DOMAIN item THEN item[key] ELSE default

\* a requestId query parameter: surrounding whitespace (pad) around the text
\* of a request id; id = 0 is the empty text.  The parameter is the empty
\* string (or missing) when it has neither
IsEmptyParam(param) == ~param.pad /\ param.id = 0

\* mutant: a missing item is returned as an item holding only its key
get_item_keyonly(tbl, request_id) ==
  IF request_id \in DOMAIN tbl THEN [Item |-> tbl[request_id]]
  ELSE [Item |-> [requestId |-> request_id]]

\* table.get_item(Key=...): the response holds Item when the item exists
get_item(tbl, request_id) ==
  IF request_id \in DOMAIN tbl THEN [Item |-> tbl[request_id]] ELSE [Metadata |-> "ok"]

\* handle_get_request with "if status == ERROR" in place of "elif": the else
\* branch then also runs for a COMPLETED record
handle_get_request_noelif(param, read, tbl, t) ==
  IF IsEmptyParam(param)
    THEN query_error_response("Parametro requestId e obrigatorio", 400, t)
  ELSE LET request_id == param.id
           response == get_item(tbl, request_id)
    IN
    IF request_id = 0 \/ read = "raise"
      THEN query_error_response("Erro ao consultar resultado", 400, t)
    ELSE IF "Item" \notin DOMAIN response
      THEN query_error_response("Solicitacao nao encontrada ou expirada", 404, t)
    ELSE
      LET item == response.Item
          status == Get(item, "status", "UNKNOWN")
          cleaned_item == convert_decimals(item)
          base == [requestId |-> request_id,
                   status |-> status,
                   createdAt |-> Get(cleaned_item, "createdAt", -1),
                   updatedAt |-> Get(cleaned_item, "updatedAt", -1)]
          extra ==
            IF status = "COMPLETED"
              THEN [ingredients |-> Get(cleaned_item, "ingredients", << >>),
                    recipes |-> Get(cleaned_item, "recipes", << >>),
                    completedAt |-> Get(cleaned_item, "completedAt", -1),
                    message |-> get_status_message(status)]
            ELSE IF status = "ERROR"
              THEN [errorMessage |-> Get(cleaned_item, "errorMessage", "Erro desconhecido")]
            ELSE [message |-> get_status_message(status)]
      IN query_success_response(
           [a \in DOMAIN base \cup DOMAIN extra |->
              IF a \in DOMAIN extra THEN extra[a] ELSE base[a]], t)

\* handle_get_request; read is how table.get_item ends ("ok" or "raise"; an
\* empty key always raises)
handle_get_request(param, read, tbl, t) ==
  IF IsEmptyParam(param)
    THEN query_error_response("Parametro requestId e obrigatorio", 400, t)
  ELSE LET request_id == param.id
           response == get_item(tbl, request_id)
    IN
    IF request_id = 0 \/ read = "raise"
      THEN query_error_response("Erro ao consultar resultado", 400, t)
    ELSE IF "Item" \notin DOMAIN response
      THEN query_error_response("Solicitacao nao encontrada ou expirada", 404, t)
    ELSE
      LET item == response.Item
          status == Get(item, "status", "UNKNOWN")
          cleaned_item == convert_decimals(item)
          base == [requestId |-> request_id,
                   status |-> status,
                   createdAt |-> Get(cleaned_item, "createdAt", -1),
                   updatedAt |-> Get(cleaned_item, "updatedAt", -1)]
          extra ==
            IF status = "COMPLETED"
              THEN [ingredients |-> Get(cleaned_item, "ingredients", << >>),
                    recipes |-> Get(cleaned_item, "recipes", << >>),
                    completedAt |-> Get(cleaned_item, "completedAt", -1)]
            ELSE IF status = "ERROR"
              THEN [errorMessage |-> Get(cleaned_item, "errorMessage", "Erro desconhecido")]
            ELSE [message |-> get_status_message(status)]
      IN query_success_response(
           [a \in DOMAIN base \cup DOMAIN extra |->
              IF a \in DOMAIN extra THEN extra[a] ELSE base[a]], t)

\* lambda_handler of lambda_query.py
query_lambda_handler(method, param, read, tbl, t) ==
  IF method = "OPTIONS" THEN [statusCode |-> 200, body |-> << >>]
  ELSE IF method = "GET" THEN handle_get_request(param, read, tbl, t)
  ELSE query_error_response("Metodo nao permitido", 405, t)

QueryParams == [pad : BOOLEAN, id : 0..(MaxRequests + 1)]

\* the polls: every requestId parameter, a failing read, and the other methods
Queries ==
  [method : {"GET"}, param : QueryParams, read : {"ok"}]
  \cup [method : {"GET"}, param : {[pad |-> FALSE, id |-> 1]}, read : {"raise"}]
  \cup [method : {"POST", "OPTIONS"}, param : {[pad |-> FALSE, id |-> 1]}, read : {"ok"}]

GetStatus(q) ==
  /\ last' = [op |-> "getStatus", method |-> q.method, param |-> q.param, read |-> q.read,
              response |-> query_lambda_handler(q.method, q.param, q.read, table, now)]
  /\ UNCHANGED << objects, table, queue, uuids, now, inv >>

\* time passes between any two steps; datetime.utcnow() reads the clock
Tick ==
  /\ now < MaxClock
  /\ now' = now + 1
  /\ UNCHANGED << objects, table, queue, uuids, inv, last >>

Init ==
  /\ objects = {}
  /\ table = << >>
  /\ queue = << >>
  /\ uuids = 0
  /\ now = 0
  /\ inv = [s \in 1..MaxInvocations |-> [pc |-> "idle"]]
  /\ last = [op |-> "none"]

NextIngest ==
  \/ \E event \in Events, fault \in Faults : Submit(event, fault)
  \/ \E q \in Queries : GetStatus(q)
  \/ Tick

SpecIngest == Init /\ [][NextIngest]_vars

Next ==
  \/ \E event \in PipelineEvents, fault \in Faults : Submit(event, fault)
  \/ \E slot \in 1..MaxInvocations, batch \in Batches : Deliver(slot, batch)
  \/ \E slot \in 1..MaxInvocations, outcome \in WriteOutcomes : WorkerStatus(slot, outcome)
  \/ \E slot \in 1..MaxInvocations, rek \in PipelineRekognition, bed \in PipelineBedrock,
         outcome \in WriteOutcomes : WorkerGenerate(slot, rek, bed, outcome)
  \/ \E slot \in 1..MaxInvocations, outcome \in WriteOutcomes : WorkerResult(slot, outcome)
  \/ Tick

Spec == Init /\ [][Next]_vars

\* one request and one invocation at a time, every outcome of the two services
NextWorker ==
  \/ uuids = 0 /\ Submit(GoodEvent, "none")
  \/ \E batch \in Batches : Deliver(1, batch)
  \/ \E outcome \in WriteOutcomes : WorkerStatus(1, outcome)
  \/ \E rek \in RekognitionOutcomes, bed \in BedrockOutcomes, outcome \in WriteOutcomes :
        WorkerGenerate(1, rek, bed, outcome)
  \/ \E outcome \in WriteOutcomes : WorkerResult(1, outcome)
  \/ \E q \in Queries : GetStatus(q)
  \/ Tick

SpecWorker == Init /\ [][NextWorker]_vars

\* messages that submit did not send: a body that is not JSON, a JSON body
\* without requestId, and a body with a requestId and no imageS3Key
UnparsableMessage == [raw |-> "not json"]

NoIdMessage == [imageS3Key |-> "images/x.jpg", bucketName |-> "bucket"]

ForeignMessages ==
  {UnparsableMessage, NoIdMessage} \cup {[requestId |-> id] : id \in 1..MaxRequests}

\* another sender puts a message in the queue; one that names a request
\* names an existing one
SendForeign(m) ==
  /\ m \notin DOMAIN queue
  /\ "requestId" \in DOMAIN m => m.requestId \in DOMAIN table
  /\ queue' = SendMessage(queue, m)
  /\ UNCHANGED << objects, table, uuids, now, inv, last >>

\* the answers of the label detection, with one whose labels are all at or
\* below the threshold
InboxRekognition ==
  RekognitionOutcomes
  \cup { [kind |-> "labels",
          labels |-> << [Name |-> "alho", Confidence |-> Float(70000)],
                        [Name |-> "sal", Confidence |-> Float(65250)] >>] }

\* one request, one invocation at a time, and messages of other senders
NextInbox ==
  \/ uuids = 0 /\ Submit(GoodEvent, "none")
  \/ \E m \in ForeignMessages : SendForeign(m)
  \/ \E batch \in Batches : Deliver(1, batch)
  \/ \E outcome \in WriteOutcomes : WorkerStatus(1, outcome)
  \/ \E rek \in InboxRekognition, bed \in PipelineBedrock, outcome \in WriteOutcomes :
        WorkerGenerate(1, rek, bed, outcome)
  \/ \E outcome \in WriteOutcomes : WorkerResult(1, outcome)

SpecInbox == Init /\ [][NextInbox]_vars

\* labels the detection can return: confidences below, at and just above the
\* threshold, two that round to the same hundredth, a half to round, one
\* with a geometry
LabelPool ==
  { [Name |-> "sal", Confidence |-> Float(65250)],
    [Name |-> "alho", Confidence |-> Float(70000)],
    [Name |-> "arroz", Confidence |-> Float(70004)],
    [Name |-> "cebola", Confidence |-> Float(80001), Geometry |-> [Width |-> Float(250)]],
    [Name |-> "batata", Confidence |-> Float(80004)],
    [Name |-> "milho", Confidence |-> Float(80015)],
    [Name |-> "tomate", Confidence |-> Float(95500)] }

LabelLists == UNION {[1..n -> LabelPool] : n \in 0..MaxLabels}

\* process_rekognition_results applied to one response
ExtractLabels(labels) ==
  /\ last' = [op |-> "extract", labels |-> labels,
              ingredients |-> process_rekognition_results(labels)]
  /\ UNCHANGED << objects, table, queue, uuids, now, inv >>

NextLabels == \E labels \in LabelLists : ExtractLabels(labels)

SpecLabels == Init /\ [][NextLabels]_vars

\* a started invocation runs lambda_handler to its return
WorkerStep(slot) ==
  \/ \E outcome \in WriteOutcomes : WorkerStatus(slot, outcome)
  \/ \E rek \in RekognitionOutcomes, bed \in BedrockOutcomes, outcome \in WriteOutcomes :
        WorkerGenerate(slot, rek, bed, outcome)
  \/ \E outcome \in WriteOutcomes : WorkerResult(slot, outcome)

\* every record-store update succeeds; the two services answer anything; one
\* invocation at a time
NextLive ==
  \/ \E event \in PipelineEvents : Submit(event, "none")
  \/ \E batch \in Batches : Deliver(1, batch)
  \/ WorkerStatus(1, "ok")
  \/ \E rek \in RekognitionOutcomes, bed \in BedrockOutcomes :
        WorkerGenerate(1, rek, bed, "error")
  \/ WorkerResult(1, "ok")

SpecLive == Init /\ [][NextLive]_vars /\ WF_vars(WorkerStep(1))

\* uploads of the same base64 text with and without the data-URL header
NextDataUrl ==
  \/ \E event \in RoundTripEvents : Submit(event, "none")
  \/ Tick

SpecDataUrl == Init /\ [][NextDataUrl]_vars

(* ------------------------------ claims --------------------------------- *)
Rank(status) ==
  CASE status = "PROCESSING" -> 1
    [] status = "ANALYZING_IMAGE" -> 2
    [] status = "GENERATING_RECIPES" -> 3
    [] status = "COMPLETED" -> 4
    [] status = "ERROR" -> 5

Kept == DOMAIN table \cap DOMAIN table'

\* C1: over submits, deliveries (duplicates and batches included) and stage
\* updates, no write replaces a record's status by one that is earlier in
\* PROCESSING -> ANALYZING_IMAGE -> GENERATING_RECIPES -> COMPLETED (or ERROR).
C1_StatusOnlyMovesForward ==
  [][\A id \in Kept : Rank(table'[id].status) >= Rank(table[id].status)]_vars

\* C2: once a record is COMPLETED or ERROR, no later operation changes its status.
C2_TerminalStatusIsFinal ==
  [][\A id \in Kept :
       table[id].status \in {"COMPLETED", "ERROR"} => table'[id].status = table[id].status]_vars

\* C3: a record whose status is ERROR carries no recipes attribute.
C3_ErrorRecordHasNoRecipes ==
  \A id \in DOMAIN table : table[id].status = "ERROR" => "recipes" \notin DOMAIN table[id]

HasJpegSignature(bytes) == Len(bytes) >= 2 /\ bytes[1] = 255 /\ bytes[2] = 216

HasPngSignature(bytes) ==
  Len(bytes) >= 8 /\ SubSeq(bytes, 1, 8) = << 137, 80, 78, 71, 13, 10, 26, 10 >>

IsValidImage(bytes) ==
  Len(bytes) >= 100 /\ (HasJpegSignature(bytes) \/ HasPngSignature(bytes))

\* the JSON submissions whose image field is a correctly encoded valid image
ValidJsonEvents ==
  { JsonEvent(p) : p \in {q \in {JpegPayload, PngPayload} :
                            b64decode(q).ok /\ IsValidImage(b64decode(q).bytes)} }
  \cup { JsonEvent(DataUrl(JpegPayload)) }

Accepted(response) ==
  /\ response.statusCode = 200
  /\ response.body.status = "PROCESSING"
  /\ response.body.requestId = uuids
  /\ response.body.requestId \in DOMAIN table
  /\ table[response.body.requestId].status = "PROCESSING"

\* C4: a submission whose body is valid JSON with a correctly base64-encoded
\* JPEG or PNG image of at least 100 bytes returns PROCESSING with a requestId
\* no earlier submission received (the newest one), and its record exists.
C4_ValidJsonSubmissionAccepted ==
  (last.op = "submit" /\ last.event \in ValidJsonEvents /\ last.fault = "none")
    => Accepted(last.response)

NoWrites == objects' = objects /\ table' = table /\ queue' = queue

Is4xx(response) == response.statusCode >= 400 /\ response.statusCode < 500

\* the submissions whose body or image cannot be decoded: a transport encoding
\* that does not decode, no file part, or an image text that is not base64
DecodingFails(event) ==
  /\ event.hasBody
  /\ \/ event.transport \in {"base64_invalid", "base64_binary"}
     \/ ~(\E i \in 1..Len(event.lines) : HasFilename(event.lines[i]))
     \/ \E payload \in {BrokenPayload} :
          /\ ~b64decode(payload).ok
          /\ event.lines = Multipart("filename=a.jpg", << payload >>)

\* C5: when decoding or validation fails during submit, the response is a 4xx
\* error and nothing is stored, written or enqueued for that submission.
C5_DecodingFailureRejected ==
  [][(last'.op = "submit" /\ DecodingFails(last'.event))
       => (Is4xx(last'.response) /\ NoWrites)]_vars

\* the image bytes a submission carries, when it carries a file part with data
CarriesImage(event) ==
  /\ event.hasBody
  /\ event.transport \in {"plain", "base64"}
  /\ ParsedEvent(event.lines).parsed.image_data # << >>
  /\ ParsedEvent(event.lines).parsed.filename # << >>
  /\ ~ParsedEvent(event.lines).image.raised

ImageOf(event) == ParsedEvent(event.lines).image.bytes

\* C6: a submission whose decoded image is shorter than 100 bytes fails and
\* performs no object-store write, no record write and no queue send.
C6_SmallImageRejected ==
  [][(last'.op = "submit" /\ CarriesImage(last'.event) /\ Len(ImageOf(last'.event)) < 100)
       => (last'.response.statusCode # 200 /\ NoWrites)]_vars

\* C7: a submission whose decoded bytes start with neither the JPEG nor the
\* PNG signature fails instead of storing the bytes and creating a record.
C7_UnknownFormatRejected ==
  [][(/\ last'.op = "submit"
      /\ CarriesImage(last'.event)
      /\ ~HasJpegSignature(ImageOf(last'.event))
      /\ ~HasPngSignature(ImageOf(last'.event)))
       => (last'.response.statusCode # 200 /\ NoWrites)]_vars

\* C8: for every ingredient list and every outcome of the text-generation
\* call, generate_recipes_with_bedrock returns a non-empty string and does not
\* raise (a raise would reach the except block as UnboundLocalError).
C8_GenerationReturnsText ==
  /\ \A slot \in 1..MaxInvocations :
       inv[slot].pc = "result" => Len(inv[slot].recipes) > 0
  /\ \A id \in DOMAIN table :
       "errorMessage" \in DOMAIN table[id] => table[id].errorMessage # "UnboundLocalError"

IsPoll == last.op = "getStatus" /\ last.method = "GET"

\* C9 as stated: getStatus for a requestId that has no record answers 404 with
\* success = false, for every requestId.  The requestId is the parameter as
\* sent: padded text is not the key of any record.
C9_UnknownIdIs404 ==
  (IsPoll /\ (last.param.pad \/ last.param.id \notin DOMAIN table))
    => (last.response.statusCode = 404 /\ last.response.body.success = FALSE)

\* C9 as amended: a requestId that is not empty after trimming and has no
\* record answers 404 with success = false when the read succeeds; an empty
\* one and a failed read answer 400 with success = false; a success payload
\* is returned only when the trimmed requestId has a record.
C9_UnknownTrimmedIdIs404 ==
  IsPoll =>
    /\ (last.param.id \notin DOMAIN table /\ last.param.id # 0 /\ last.read = "ok")
         => (last.response.statusCode = 404 /\ last.response.body.success = FALSE)
    /\ (last.param.id = 0 \/ last.read = "raise")
         => (last.response.statusCode = 400 /\ last.response.body.success = FALSE)
    /\ last.response.body.success => last.param.id \in DOMAIN table

C9_Witness ==
  /\ IsPoll
  /\ last.read = "ok"
  /\ last.param.id # 0
  /\ last.param.id \notin DOMAIN table
  /\ \E id \in DOMAIN table : table[id].status = "COMPLETED"

\* C10: a record that has left PROCESSING never has status PROCESSING again;
\* PROCESSING is written only by submit, under the request id generated by
\* that submit.
C10_NeverBackToProcessing ==
  [][\A id \in DOMAIN table' :
       table'[id].status = "PROCESSING" =>
         \/ id \in DOMAIN table /\ table[id].status = "PROCESSING"
                                /\ table'[id] = table[id]
         \/ id \notin DOMAIN table /\ uuids' = uuids + 1 /\ id = uuids'
                                   /\ last'.op = "submit"]_vars

C10_Witness ==
  /\ uuids = MaxRequests
  /\ \E m \in DOMAIN queue :
       /\ queue[m] = MaxDeliveries
       /\ table[m.requestId].status \in {"ANALYZING_IMAGE", "COMPLETED", "ERROR"}
  /\ \E id \in DOMAIN table : table[id].status = "PROCESSING"

\* the record of the message an invocation is working on
Current(slot) == inv[slot].batch[inv[slot].idx].requestId

\* C11: a record enters COMPLETED only from GENERATING_RECIPES and
\* GENERATING_RECIPES only from ANALYZING_IMAGE; after label detection failed
\* with ResourceNotFound, the status that follows ANALYZING_IMAGE is
\* GENERATING_RECIPES.
C11_StatusFollowsGraph ==
  [][\A id \in Kept :
       /\ (table'[id].status = "COMPLETED" /\ table[id].status # "COMPLETED")
            => table[id].status = "GENERATING_RECIPES"
       /\ (table'[id].status = "GENERATING_RECIPES" /\ table[id].status # "GENERATING_RECIPES")
            => table[id].status = "ANALYZING_IMAGE"
       /\ \A slot \in 1..MaxInvocations :
            (/\ inv[slot].pc = "result"
             /\ inv[slot].rekognition.kind = "ResourceNotFoundException"
             /\ Current(slot) = id
             /\ table[id].status = "ANALYZING_IMAGE"
             /\ table'[id].status # "ANALYZING_IMAGE")
              => table'[id].status = "GENERATING_RECIPES"]_vars

\* C12: when the text-generation call is throttled while a message is
\* processed, the generator returns the fixed busy message, and the update
\* that follows leaves the record COMPLETED with exactly that string as
\* recipes; the record is not COMPLETED only when that update itself raises
\* (then the except block ran: ERROR "update_item failed", or nothing written).
C12_ThrottledGivesBusyMessage ==
  [][\A slot \in 1..MaxInvocations :
       (inv[slot].pc = "result" /\ inv[slot].bedrock = "ThrottlingException")
         => /\ inv[slot].recipes = ThrottledText
            /\ inv'[slot] # inv[slot] =>
                 LET id == Current(slot) IN
                 \/ /\ table'[id].status = "COMPLETED"
                    /\ table'[id].recipes = ThrottledText
                 \/ /\ inv'[slot] = Idle
                    /\ \/ table' = table
                       \/ /\ table'[id].status = "ERROR"
                          /\ table'[id].errorMessage = "update_item failed"]_vars

C12_Witness ==
  \E id \in DOMAIN table :
    /\ table[id].status = "COMPLETED"
    /\ table[id].recipes = ThrottledText
    /\ \E i \in 1..Len(table[id].ingredients) : table[id].ingredients[i].name = "tomate"

\* an invocation is working on the message of this record
InFlight(id) == \E slot \in 1..MaxInvocations : inv[slot].pc # "idle" /\ Current(slot) = id

\* C13: deliveries of the same message one after the other end in the status
\* the first one ended in: a record that was COMPLETED once (it carries
\* completedAt) is COMPLETED whenever no invocation is working on it, so a
\* duplicate leaves it neither ERROR nor in a non-terminal status.
C13_DuplicateKeepsCompleted ==
  \A id \in DOMAIN table :
    ("completedAt" \in DOMAIN table[id] /\ ~InFlight(id)) => table[id].status = "COMPLETED"

\* an invocation is between its first update of a record (ANALYZING_IMAGE)
\* and its last one (COMPLETED or ERROR)
Updating(slot) == inv[slot].pc \in {"generate", "result"}

\* C14: at most one invocation at a time is between its first and its last
\* update of the record of a requestId, also when the message of that
\* requestId is delivered more than once.
C14_OneUpdaterPerRecord ==
  \A s1, s2 \in 1..MaxInvocations :
    (s1 # s2 /\ Updating(s1) /\ Updating(s2)) => Current(s1) # Current(s2)

Enqueued(id) == \E m \in DOMAIN queue : m.requestId = id

\* C15: a submit whose object write and record write succeed and whose queue
\* send fails returns an error and leaves the record PROCESSING with no
\* message; a message is only ever enqueued under a new requestId, and a
\* record without a message is PROCESSING in every later state.
C15_SendFailureLeavesProcessing ==
  [][/\ (last'.op = "submit" /\ last'.fault = "send_message" /\ uuids' # uuids)
          => /\ last'.response.statusCode # 200
             /\ queue' = queue
             /\ \E o \in objects' : o.key.requestId = uuids'
             /\ uuids' \in DOMAIN table'
             /\ table'[uuids'].status = "PROCESSING"
     /\ \A m \in DOMAIN queue' \ DOMAIN queue : m.requestId \notin DOMAIN table
     /\ \A id \in DOMAIN table' : ~Enqueued(id)' => table'[id].status = "PROCESSING"]_vars

C15_Witness ==
  \E id, later \in DOMAIN table :
    /\ id < later
    /\ ~Enqueued(id)
    /\ table[id].status = "PROCESSING"
    /\ table[later].status = "COMPLETED"

\* C16: when a record-store write fails while the worker processes a message
\* whose record exists, the record is ERROR with the captured message when the
\* invocation ends: an iteration that ends the invocation leaves the record of
\* its message COMPLETED (no failure) or ERROR with an errorMessage, never in
\* a non-terminal status.
C16_FailureMarksError ==
  [][\A slot \in 1..MaxInvocations :
       (/\ inv[slot].pc # "idle"
        /\ inv'[slot].pc = "idle"
        /\ Current(slot) \in DOMAIN table)
         => LET item == table'[Current(slot)] IN
            \/ item.status = "COMPLETED"
            \/ item.status = "ERROR" /\ "errorMessage" \in DOMAIN item]_vars

\* the message of this record is in the batch of a running invocation and has
\* not been processed by it yet
Delivered(id) ==
  \E slot \in 1..MaxInvocations :
    /\ inv[slot].pc # "idle"
    /\ \E k \in inv[slot].idx..Len(inv[slot].batch) : inv[slot].batch[k].requestId = id

\* C17: when every record-store update succeeds, every message delivered to
\* the worker eventually brings its record to COMPLETED, whatever the
\* label-detection call and the text-generation call do.
C17_DeliveredEventuallyCompleted ==
  \A id \in 1..MaxRequests :
    Delivered(id) ~> (id \in DOMAIN table /\ table[id].status = "COMPLETED")

C17_Witness ==
  \E id \in DOMAIN table :
    /\ table[id].status = "COMPLETED"
    /\ table[id].ingredients[1].name = "banana"
    /\ table[id].recipes[1] = "Receita gerada automaticamente com os ingredientes: "

\* the messages of the lookup table of get_status_message
FriendlyMessages ==
  { "Sua imagem esta sendo processada...",
    "Analisando ingredientes na imagem...",
    "Gerando receitas personalizadas...",
    "Fazendo upload da imagem...",
    "Na fila de processamento..." }

\* C18: the getStatus response for a stored record reports the record's
\* status; it carries ingredients, recipes and completedAt (those of the
\* record) exactly when the status is COMPLETED, errorMessage (that of the
\* record) exactly when it is ERROR, and a message of the lookup table exactly
\* when it is neither; it never carries both recipes and errorMessage.
C18_PayloadMatchesStatus ==
  [][(/\ last' # last
      /\ last'.op = "getStatus"
      /\ last'.method = "GET"
      /\ last'.response.statusCode = 200)
       => LET d == last'.response.body.data
              item == table[last'.param.id]
              terminal == {"COMPLETED", "ERROR"}
          IN /\ d.status = item.status
             /\ \A k \in {"ingredients", "recipes", "completedAt"} :
                  k \in DOMAIN d <=> d.status = "COMPLETED"
             /\ "errorMessage" \in DOMAIN d <=> d.status = "ERROR"
             /\ "message" \in DOMAIN d <=> d.status \notin terminal
             /\ "message" \in DOMAIN d => d.message \in FriendlyMessages
             /\ ~("recipes" \in DOMAIN d /\ "errorMessage" \in DOMAIN d)
             /\ d.status = "COMPLETED" =>
                  /\ d.recipes = item.recipes
                  /\ d.completedAt = item.completedAt
                  /\ Len(d.ingredients) = Len(item.ingredients)
             /\ d.status = "ERROR" => d.errorMessage = item.errorMessage]_vars

C18_Witness ==
  /\ IsPoll
  /\ last.response.statusCode = 200
  /\ last.response.body.data.status = "ERROR"
  /\ "recipes" \in DOMAIN table[last.param.id]
  /\ table[last.param.id].status = "ERROR"

\* a response returned to the client of submit or getStatus (the answer to an
\* OPTIONS preflight has an empty body and is left out)
ClientResponse ==
  \/ last.op = "submit"
  \/ last.op = "getStatus" /\ last.method # "OPTIONS"

\* C19: every response of submit and of getStatus, success or failure, has a
\* success flag in its body: true with status 200, false otherwise.
C19_ResponseHasSuccessFlag ==
  ClientResponse =>
    /\ "success" \in DOMAIN last.response.body
    /\ last.response.body.success = (last.response.statusCode = 200)

\* the bytes in the object store under a request id
StoredFor(objs, id) == {o.body : o \in {x \in objs : x.key.requestId = id}}

\* C20: for every base64 payload P, the upload of 'data:image...,' + P stores
\* the same image bytes as the upload of P alone: whenever one form is
\* submitted right after the other, both objects exist and hold equal bytes.
C20_DataUrlRoundTrip ==
  [][\A payload \in RoundTripPayloads :
       (/\ last.op = "submit"
        /\ last'.op = "submit"
        /\ uuids' = uuids + 1
        /\ {last.event, last'.event} = {BareEvent(payload), UrlEvent(payload)})
         => /\ StoredFor(objects, uuids) # {}
            /\ StoredFor(objects', uuids') = StoredFor(objects, uuids)]_vars

C20_Witness ==
  /\ last.op = "submit"
  /\ last.event = UrlEvent(<< << "d", "G", "V", "z" >>, << "d", "A", "=", "=" >> >>)
  /\ uuids = 2
  /\ StoredFor(objects, 1) = {<< 116, 101, 115, 116 >>}
  /\ StoredFor(objects, 2) = {<< 116, 101, 115, 116 >>}

\* C21: every message in the queue or in a running batch names a record that
\* exists (it is enqueued after its record was written), so no update of the
\* worker creates a record; and every update of the worker writes status and
\* updatedAt together (a worker status and the time of the write).
C21_WorkerUpdatesExistingRecord ==
  [][/\ \A m \in DOMAIN queue' : m.requestId \in DOMAIN table'
     /\ inv' # inv =>
          /\ DOMAIN table' = DOMAIN table
          /\ \A id \in DOMAIN table :
               table'[id] # table[id] =>
                 /\ DOMAIN table[id] \subseteq DOMAIN table'[id]
                 /\ table'[id].status \in {"ANALYZING_IMAGE", "COMPLETED", "ERROR"}
                 /\ table'[id].updatedAt = now]_vars

C21_Witness ==
  /\ uuids = MaxRequests
  /\ Cardinality(DOMAIN table) = 1
  /\ \E id \in DOMAIN table :
       /\ table[id].status = "ERROR"
       /\ "completedAt" \in DOMAIN table[id]
       /\ table[id].updatedAt = MaxClock

\* C22: ingredients and recipes are each written at most once in the history
\* of a record (a stored value is never replaced); ingredients is stored before
\* the record is marked COMPLETED (by the time it reaches GENERATING_RECIPES),
\* and recipes is stored only by the write that marks it COMPLETED.
C22_IngredientsAndRecipesOnce ==
  [][\A id \in Kept :
       /\ \A a \in {"ingredients", "recipes"} :
            a \in DOMAIN table[id] =>
              (table'[id] = table[id] \/ table'[id].status # "COMPLETED")
       /\ (table'[id].status = "COMPLETED" /\ table[id].status # "COMPLETED")
            => "ingredients" \in DOMAIN table[id]
       /\ ("recipes" \in DOMAIN table'[id] /\ "recipes" \notin DOMAIN table[id])
            => table'[id].status = "COMPLETED"]_vars

\* C23: a record carries an errorMessage only while its status is ERROR.
C23_ErrorMessageOnlyInError ==
  \A id \in DOMAIN table :
    "errorMessage" \in DOMAIN table[id] => table[id].status = "ERROR"

\* C24: a record gets its createdAt from the submit that creates it and no
\* later write changes it; every write that changes status sets updatedAt to
\* the time of the write; completedAt is set only by a write that sets status
\* COMPLETED (so only a record that was COMPLETED has one).
C24_TimestampFrame ==
  [][/\ \A id \in DOMAIN table' \ DOMAIN table :
          /\ uuids' = uuids + 1 /\ id = uuids' /\ last'.op = "submit"
          /\ table'[id].createdAt = now
          /\ "completedAt" \notin DOMAIN table'[id]
     /\ \A id \in Kept :
          /\ "createdAt" \in DOMAIN table'[id]
          /\ table'[id].createdAt = table[id].createdAt
          /\ table'[id].status # table[id].status => table'[id].updatedAt = now
          /\ ("completedAt" \in DOMAIN table'[id]
                /\ ("completedAt" \in DOMAIN table[id]
                      => table'[id].completedAt # table[id].completedAt))
               => (table'[id].status = "COMPLETED" /\ table'[id].completedAt = now)]_vars

C24_Witness ==
  \E id \in DOMAIN table :
    /\ table[id].status = "ERROR"
    /\ table[id].createdAt = 0
    /\ "completedAt" \in DOMAIN table[id]
    /\ table[id].completedAt = 0
    /\ table[id].updatedAt = MaxClock

\* the message an invocation record is working on gets no ingredient from the
\* label detection: it has no image key, or the detection raised, or no label
\* it returned is above the threshold
UsesFallback(i) ==
  LET message == i.batch[i.idx] IN
  \/ "imageS3Key" \notin DOMAIN message
  \/ i.rekognition.kind # "labels"
  \/ \A k \in 1..Len(i.rekognition.labels) : i.rekognition.labels[k].Confidence.milli <= 70000

FallbackNames == << "banana", "ovo", "farinha de trigo", "manteiga", "leite" >>

IsFallbackList(ings) ==
  /\ Len(ings) = Len(FallbackNames)
  /\ \A k \in 1..Len(ings) :
       /\ DOMAIN ings[k] = {"name", "confidence", "source"}
       /\ ings[k].name = FallbackNames[k]
       /\ ings[k].source = "fallback"
       /\ ings[k].confidence.milli = 500

\* C25: when the label detection returns no label above the threshold, reports
\* the model missing, fails with any error, or the message has no image key,
\* the stage goes on to the result update with exactly the fixed fallback list
\* (source fallback, confidence 0.5) and writes no ERROR; the update that
\* follows stores that list with COMPLETED, and the record is ERROR only when
\* that update itself raises ("update_item failed", or nothing written).
C25_FallbackIngredients ==
  [][\A slot \in 1..MaxInvocations :
       /\ (inv[slot].pc = "generate" /\ inv'[slot] # inv[slot])
            => /\ inv'[slot].pc = "result"
               /\ table' = table
               /\ UsesFallback(inv'[slot]) => IsFallbackList(inv'[slot].ingredients)
       /\ (inv[slot].pc = "result" /\ inv'[slot] # inv[slot] /\ UsesFallback(inv[slot]))
            => LET id == inv[slot].request_id IN
               \/ /\ table'[id].status = "COMPLETED"
                  /\ IsFallbackList(table'[id].ingredients)
               \/ /\ inv'[slot] = Idle
                  /\ \/ table' = table
                     \/ /\ table'[id].status = "ERROR"
                        /\ table'[id].errorMessage = "update_item failed"]_vars

C25_Witness ==
  /\ inv[1].pc = "status"
  /\ inv[1].idx = 2
  /\ "imageS3Key" \notin DOMAIN inv[1].batch[1]
  /\ "imageS3Key" \in DOMAIN inv[1].batch[2]
  /\ \E id \in DOMAIN table :
       /\ table[id].status = "COMPLETED"
       /\ IsFallbackList(table[id].ingredients)

\* C26: for every list of labels, the extracted ingredients are exactly the
\* labels whose confidence is strictly above 70.0 (one at 70.0 is dropped),
\* each as a {name, confidence, geometry} entry of its label, and the list is
\* in non-increasing order of the entries' confidence.
C26_ExtractedIngredients ==
  last.op = "extract" =>
    LET labels == last.labels
        ings == last.ingredients
        above == {k \in 1..Len(labels) : labels[k].Confidence.milli > 70000}
    IN /\ Len(ings) = Cardinality(above)
       /\ \A i \in 1..Len(ings) : DOMAIN ings[i] = {"name", "confidence", "geometry"}
       /\ \E f \in [1..Len(ings) -> above] :
            /\ \A i, j \in 1..Len(ings) : f[i] = f[j] => i = j
            /\ \A i \in 1..Len(ings) :
                 LET label == labels[f[i]] IN
                 /\ ings[i].name = label.Name
                 /\ ings[i].confidence.milli - label.Confidence.milli \in -5..5
                 /\ ings[i].confidence.milli % 10 = 0
                 /\ IF "Geometry" \in DOMAIN label
                      THEN /\ DOMAIN ings[i].geometry = DOMAIN label.Geometry
                           /\ \A g \in DOMAIN label.Geometry :
                                ings[i].geometry[g].milli = label.Geometry[g].milli
                      ELSE ings[i].geometry = << >>
       /\ \A i, j \in 1..Len(ings) :
            i < j => ings[i].confidence.milli >= ings[j].confidence.milli

C26_Witness ==
  /\ last.op = "extract"
  /\ Len(last.labels) = MaxLabels
  /\ \E k \in 1..Len(last.labels) : last.labels[k].Confidence.milli = 70000
  /\ Len(last.ingredients) = 2
  /\ last.ingredients[1].name = "tomate"
  /\ last.labels[Len(last.labels)].Name = "tomate"

\* C27: a step that writes ERROR to a record is a step of an invocation whose
\* current message names that record: a failure on a later message of a batch
\* (a body that does not parse or has no requestId included) never marks the
\* record of an earlier message of the batch.
C27_ErrorOnlyOnFailedMessage ==
  [][\A id \in Kept :
       (table'[id] # table[id] /\ table'[id].status = "ERROR")
         => \E slot \in 1..MaxInvocations :
              /\ inv[slot].pc # "idle"
              /\ "requestId" \in DOMAIN inv[slot].batch[inv[slot].idx]
              /\ inv[slot].batch[inv[slot].idx].requestId = id]_vars

\* C28: when an invocation returns (its whole batch is then removed from the
\* queue), the record of every message of the batch that follows the one it
\* was working on is COMPLETED or ERROR: a failure on one message leaves no
\* following message unprocessed with its record in a non-terminal status.
C28_BatchFullyProcessed ==
  [][\A slot \in 1..MaxInvocations :
       (inv[slot].pc # "idle" /\ inv'[slot].pc = "idle")
         => \A k \in (inv[slot].idx + 1)..Len(inv[slot].batch) :
              table'[inv[slot].batch[k].requestId].status \in {"COMPLETED", "ERROR"}]_vars


====
